---- MODULE Spec2Model ----
(***************************************************************************)
(* Training loops of models.py: PerceptronModel, RegressionModel and       *)
(* DigitClassificationModel, driven against the nn engine (Parameter,      *)
(* DotProduct, Linear, AddBias, ReLU, SquareLoss, SoftmaxLoss, gradients,  *)
(* as_scalar) and a Dataset yielding batches through iterate_once.         *)
(*                                                                         *)
(* Numbers.  Perceptron inputs are integer vectors and its weights are     *)
(* kept in units of 1/WScale, so that every score and update is exact.     *)
(* The tensors of the two networks are matrices (sequences of rows) of     *)
(* fixed-point numbers: the integer n stands for n/Unit, products are      *)
(* rounded to the nearest multiple of 1/Unit.  The networks keep the       *)
(* topology of the source with two hidden units, and a batch has two rows. *)
(***************************************************************************)
EXTENDS Integers, Sequences, FiniteSets, TLC

VARIABLES
  model,     \* which model the harness constructed and trains
  data,      \* the dataset: the batches one iterate_once sweep yields
  pc,        \* position inside train
  idx,       \* position of the for loop inside the current sweep
  w,         \* PerceptronModel.w
  flag,      \* local flag of PerceptronModel.train
  pred,      \* value of get_prediction(x) in the condition of line 50
  w1, b1, w2, b2,   \* the four Parameters of a network model
  lossNode,  \* local loss (the node) of a network train
  grads,     \* grad_wrt_w1, grad_wrt_b1, grad_wrt_w2, grad_wrt_b2
  loss,      \* local loss (the scalar) of RegressionModel.train
  epoch      \* sweeps started by `for i in range(100)`

vars == <<model, data, pc, idx, w, flag, pred,
          w1, b1, w2, b2, lossNode, grads, loss, epoch>>

pvars == <<w, flag, pred>>
nvars == <<w1, b1, w2, b2, lossNode, grads, loss, epoch>>

\* ---------------------------------------------------------------- bounds
Dim == 2        \* `dimensions` handed to PerceptronModel.__init__
XMax == 1       \* perceptron inputs have coordinates in -XMax..XMax
MaxLen == 2     \* examples (batches) yielded by one iterate_once sweep
WScale == 2     \* perceptron weights are stored in units of 1/WScale
Unit == 1000    \* fixed-point resolution of the network tensors

\* ------------------------------------------------------------- nn engine
RECURSIVE SumTo(_, _)
SumTo(f, n) == IF n = 0 THEN 0 ELSE f[n] + SumTo(f, n - 1)

\* nn.DotProduct(w, x) followed by nn.as_scalar: w in 1/WScale units, x whole
DotProduct(ww, x) == SumTo([i \in 1..Dim |-> ww[i] * x[i]], Dim)

\* Parameter.update(direction, multiplier) on the perceptron weights:
\* value <- value + multiplier * direction (direction in whole units)
UpdateW(ww, direction, multiplier) ==
  [i \in 1..Dim |-> ww[i] + multiplier * direction[i] * WScale]

\* ------------------------------------------------------- PerceptronModel
run(ww, x) == DotProduct(ww, x)

get_prediction_gt(ww, x) == IF run(ww, x) > 0 THEN 1 ELSE -1

get_prediction(ww, x) == IF run(ww, x) >= 0 THEN 1 ELSE -1

Points == [1..Dim -> -XMax..XMax]
Examples == [x : Points, y : {1, -1}]
PDatasets == UNION {[1..n -> Examples] : n \in 0..MaxLen}
\* nn.Parameter(1, dimensions) starts at arbitrary small values: -1, 0 or 1/WScale
InitWeights == [1..Dim -> {-WScale, 0, 1}]

InitP ==
  /\ model = "perceptron"
  /\ data \in PDatasets
  /\ w \in InitWeights
  /\ flag = TRUE
  /\ pc = "while"
  /\ idx = 0
  /\ pred = 0
  /\ w1 = <<>> /\ b1 = <<>> /\ w2 = <<>> /\ b2 = <<>>
  /\ lossNode = <<>> /\ grads = <<>> /\ loss = 0 /\ epoch = 0

\* while flag: flag = False; for ... in dataset.iterate_once(1)
PWhile ==
  /\ model = "perceptron" /\ pc = "while"
  /\ IF flag
       THEN /\ flag' = FALSE
            /\ idx' = 1
            /\ pc' = "for"
       ELSE /\ pc' = "done"
            /\ UNCHANGED <<flag, idx>>
  /\ UNCHANGED <<model, data, w, pred>> /\ UNCHANGED nvars

\* the condition of line 50 evaluates self.get_prediction(x)
PPredict ==
  /\ model = "perceptron" /\ pc = "for" /\ idx <= Len(data)
  /\ pred' = get_prediction(w, data[idx].x)
  /\ pc' = "if"
  /\ UNCHANGED <<model, data, idx, w, flag>> /\ UNCHANGED nvars

PIf_noflag ==
  /\ model = "perceptron" /\ pc = "if"
  /\ IF pred # data[idx].y
       THEN /\ w' = UpdateW(w, data[idx].x, data[idx].y)
            /\ UNCHANGED flag
       ELSE UNCHANGED <<w, flag>>
  /\ idx' = idx + 1
  /\ pc' = "for"
  /\ UNCHANGED <<model, data, pred>> /\ UNCHANGED nvars

PIf_inverted ==
  /\ model = "perceptron" /\ pc = "if"
  /\ IF pred = data[idx].y
       THEN /\ w' = UpdateW(w, data[idx].x, data[idx].y)
            /\ flag' = TRUE
       ELSE UNCHANGED <<w, flag>>
  /\ idx' = idx + 1
  /\ pc' = "for"
  /\ UNCHANGED <<model, data, pred>> /\ UNCHANGED nvars

PIf_pred ==
  /\ model = "perceptron" /\ pc = "if"
  /\ IF pred # data[idx].y
       THEN /\ w' = UpdateW(w, data[idx].x, pred)
            /\ flag' = TRUE
       ELSE UNCHANGED <<w, flag>>
  /\ idx' = idx + 1
  /\ pc' = "for"
  /\ UNCHANGED <<model, data, pred>> /\ UNCHANGED nvars

\* if prediction != as_scalar(y): self.w.update(x, as_scalar(y)); flag = True
PIf ==
  /\ model = "perceptron" /\ pc = "if"
  /\ IF pred # data[idx].y
       THEN /\ w' = UpdateW(w, data[idx].x, data[idx].y)
            /\ flag' = TRUE
       ELSE UNCHANGED <<w, flag>>
  /\ idx' = idx + 1
  /\ pc' = "for"
  /\ UNCHANGED <<model, data, pred>> /\ UNCHANGED nvars

\* the sweep is exhausted: back to the while test
PForEnd ==
  /\ model = "perceptron" /\ pc = "for" /\ idx > Len(data)
  /\ pc' = "while"
  /\ UNCHANGED <<model, data, idx, w, flag, pred>> /\ UNCHANGED nvars

NextP == PWhile \/ PPredict \/ PIf \/ PForEnd

SpecP == InitP /\ [][NextP]_vars

LiveP == InitP /\ [][NextP]_vars /\ WF_vars(NextP)

\* ------------------------------------------- nn engine, network tensors
\* a/n and a/Unit rounded to the nearest integer
DivRound(a, n) == (2 * a + n) \div (2 * n)
Round(a) == DivRound(a, Unit)

Rows(m) == Len(m)
Cols(m) == Len(m[1])

\* nn.Linear(x, weights): the matrix product x * weights
Linear(x, m) ==
  [i \in 1..Rows(x) |-> [j \in 1..Cols(m) |->
     Round(SumTo([k \in 1..Cols(x) |-> x[i][k] * m[k][j]], Cols(x)))]]

\* nn.AddBias(x, bias): the 1 x c bias added to every row
AddBias(x, bias) ==
  [i \in 1..Rows(x) |-> [j \in 1..Cols(x) |-> x[i][j] + bias[1][j]]]

\* nn.ReLU(x)
ReLU(x) ==
  [i \in 1..Rows(x) |-> [j \in 1..Cols(x) |->
     IF x[i][j] > 0 THEN x[i][j] ELSE 0]]

Transpose(m) == [j \in 1..Cols(m) |-> [i \in 1..Rows(m) |-> m[i][j]]]

ColSum(m) ==
  <<[j \in 1..Cols(m) |-> SumTo([i \in 1..Rows(m) |-> m[i][j]], Rows(m))]>>

\* sum of all entries of a matrix of numbers
Total(m) == SumTo(ColSum(m)[1], Cols(m))

\* nn.SquareLoss(a, b) read by nn.as_scalar: mean((a - b)^2) / 2
SquareLoss(a, b) ==
  Round(DivRound(
    Total([i \in 1..Rows(a) |-> [j \in 1..Cols(a) |->
             (a[i][j] - b[i][j]) * (a[i][j] - b[i][j])]]),
    2 * Rows(a) * Cols(a)))

\* Parameter.update(direction, multiplier): value <- value + multiplier * direction
Update(value, direction, multiplier) ==
  [i \in 1..Rows(value) |-> [j \in 1..Cols(value) |->
     value[i][j] + Round(multiplier * direction[i][j])]]

\* nn.gradients(loss, [w1, b1, w2, b2]) of a two-layer network: dOut is the
\* gradient of the loss with respect to the output of run, h the hidden
\* activations held by the loss node; aligned with the parameter list
Backprop(x, h, dOut, pw2) ==
  LET dH == Linear(dOut, Transpose(pw2))
      dPre == [i \in 1..Rows(h) |-> [j \in 1..Cols(h) |->
                 IF h[i][j] > 0 THEN dH[i][j] ELSE 0]]
  IN  [w1 |-> Linear(Transpose(x), dPre),
       b1 |-> ColSum(dPre),
       w2 |-> Linear(Transpose(h), dOut),
       b2 |-> ColSum(dOut)]

\* gradient of SquareLoss with respect to its first input: (a - b) / size
SquareLossGrad(a, b) ==
  [i \in 1..Rows(a) |-> [j \in 1..Cols(a) |->
     DivRound(a[i][j] - b[i][j], Rows(a) * Cols(a))]]

\* ------------------------------------------------------- RegressionModel
\* self.learningRate = 0.01, and the 0.015 of the while test
LearningRate == Unit \div 100
Threshold == (15 * Unit) \div 1000

Regression_hidden(p, x) == ReLU(AddBias(Linear(x, p.w1), p.b1))

Regression_run(p, x) ==
  AddBias(Linear(Regression_hidden(p, x), p.w2), p.b2)

\* the loss node with the forward values it holds
Regression_get_loss(p, x, y) ==
  [x |-> x, y |-> y,
   h |-> Regression_hidden(p, x),
   out |-> Regression_run(p, x),
   value |-> SquareLoss(Regression_run(p, x), y)]

Regression_gradients(node, p) ==
  Backprop(node.x, node.h, SquareLossGrad(node.out, node.y), p.w2)

Params == [w1 |-> w1, b1 |-> b1, w2 |-> w2, b2 |-> b2]

\* batches of (x, y) rows on the curve y = sin(x)
Frac(n) == (n * Unit) \div 1000
RBatches ==
  { [x |-> << <<0>>, <<0>> >>, y |-> << <<0>>, <<0>> >>],
    [x |-> << <<Frac(524)>>, <<Frac(1571)>> >>,
     y |-> << <<Frac(500)>>, <<Unit>> >>] }
RDatasets == UNION {[1..n -> RBatches] : n \in 0..MaxLen}

\* nn.Parameter(1, 2), (1, 2), (2, 1), (1, 1) start at arbitrary small values
RInitParams ==
  { [w1 |-> << <<Frac(300), -Frac(200)>> >>, b1 |-> << <<Frac(100), Frac(200)>> >>,
     w2 |-> << <<Frac(400)>>, <<-Frac(300)>> >>, b2 |-> << <<0>> >>],
    [w1 |-> << <<-Frac(500), Frac(600)>> >>, b1 |-> << <<-Frac(100), 0>> >>,
     w2 |-> << <<-Frac(200)>>, <<Frac(700)>> >>, b2 |-> << <<-Frac(150)>> >>] }

InitR ==
  /\ model = "regression"
  /\ data \in RDatasets
  /\ \E p \in RInitParams :
       w1 = p.w1 /\ b1 = p.b1 /\ w2 = p.w2 /\ b2 = p.b2
  /\ lossNode = <<>> /\ grads = <<>>
  /\ loss = Unit
  /\ epoch = 0
  /\ pc = "while"
  /\ idx = 0
  /\ w = <<>> /\ flag = FALSE /\ pred = 0

\* while loss > 0.015: for x, y in dataset.iterate_once(self.batch_size)
RWhile ==
  /\ model = "regression" /\ pc = "while"
  /\ IF loss > Threshold
       THEN idx' = 1 /\ pc' = "for"
       ELSE pc' = "done" /\ UNCHANGED idx
  /\ UNCHANGED <<model, data, w1, b1, w2, b2, lossNode, grads, loss, epoch>>
  /\ UNCHANGED pvars

RLoss_cached ==
  /\ model = "regression" /\ pc = "for" /\ idx <= Len(data)
  /\ lossNode' =
       IF lossNode # <<>> /\ lossNode.x = data[idx].x /\ lossNode.y = data[idx].y
         THEN lossNode
         ELSE Regression_get_loss(Params, data[idx].x, data[idx].y)
  /\ pc' = "gradients"
  /\ UNCHANGED <<model, data, idx, w1, b1, w2, b2, grads, loss, epoch>>
  /\ UNCHANGED pvars

\* loss = self.get_loss(x, y)
RLoss ==
  /\ model = "regression" /\ pc = "for" /\ idx <= Len(data)
  /\ lossNode' = Regression_get_loss(Params, data[idx].x, data[idx].y)
  /\ pc' = "gradients"
  /\ UNCHANGED <<model, data, idx, w1, b1, w2, b2, grads, loss, epoch>>
  /\ UNCHANGED pvars

\* grad_wrt_w1, ... = nn.gradients(loss, [self.w1, self.b1, self.w2, self.b2])
RGradients ==
  /\ model = "regression" /\ pc = "gradients"
  /\ grads' = Regression_gradients(lossNode, Params)
  /\ pc' = "update_w1"
  /\ UNCHANGED <<model, data, idx, w1, b1, w2, b2, lossNode, loss, epoch>>
  /\ UNCHANGED pvars

\* self.w1.update(grad_wrt_w1, -1 * self.learningRate)
RUpdateW1 ==
  /\ model = "regression" /\ pc = "update_w1"
  /\ w1' = Update(w1, grads.w1, -1 * LearningRate)
  /\ pc' = "update_b1"
  /\ UNCHANGED <<model, data, idx, b1, w2, b2, lossNode, grads, loss, epoch>>
  /\ UNCHANGED pvars

\* self.b1.update(grad_wrt_b1, -1 * self.learningRate)
RUpdateB1 ==
  /\ model = "regression" /\ pc = "update_b1"
  /\ b1' = Update(b1, grads.b1, -1 * LearningRate)
  /\ pc' = "update_b2"
  /\ UNCHANGED <<model, data, idx, w1, w2, b2, lossNode, grads, loss, epoch>>
  /\ UNCHANGED pvars

RUpdateB2_fresh ==
  /\ model = "regression" /\ pc = "update_b2"
  /\ b2' = Update(b2,
        Regression_gradients(
          Regression_get_loss(Params, data[idx].x, data[idx].y), Params).b2,
        -1 * LearningRate)
  /\ pc' = "update_w2"
  /\ UNCHANGED <<model, data, idx, w1, b1, w2, lossNode, grads, loss, epoch>>
  /\ UNCHANGED pvars

\* self.b2.update(grad_wrt_b2, -1 * self.learningRate)
RUpdateB2 ==
  /\ model = "regression" /\ pc = "update_b2"
  /\ b2' = Update(b2, grads.b2, -1 * LearningRate)
  /\ pc' = "update_w2"
  /\ UNCHANGED <<model, data, idx, w1, b1, w2, lossNode, grads, loss, epoch>>
  /\ UNCHANGED pvars

\* self.w2.update(grad_wrt_w2, -1 * self.learningRate)
RUpdateW2 ==
  /\ model = "regression" /\ pc = "update_w2"
  /\ w2' = Update(w2, grads.w2, -1 * LearningRate)
  /\ pc' = "reeval"
  /\ UNCHANGED <<model, data, idx, w1, b1, b2, lossNode, grads, loss, epoch>>
  /\ UNCHANGED pvars

RReeval_stale ==
  /\ model = "regression" /\ pc = "reeval"
  /\ loss' = lossNode.value
  /\ idx' = idx + 1
  /\ pc' = "for"
  /\ UNCHANGED <<model, data, w1, b1, w2, b2, lossNode, grads, epoch>>
  /\ UNCHANGED pvars

RReeval_break ==
  /\ model = "regression" /\ pc = "reeval"
  /\ loss' = Regression_get_loss(Params, data[idx].x, data[idx].y).value
  /\ idx' = idx + 1
  /\ pc' = IF loss' > Threshold THEN "for" ELSE "done"
  /\ UNCHANGED <<model, data, w1, b1, w2, b2, lossNode, grads, epoch>>
  /\ UNCHANGED pvars

\* loss = nn.as_scalar(self.get_loss(x, y)), then the next batch
RReeval ==
  /\ model = "regression" /\ pc = "reeval"
  /\ loss' = Regression_get_loss(Params, data[idx].x, data[idx].y).value
  /\ idx' = idx + 1
  /\ pc' = "for"
  /\ UNCHANGED <<model, data, w1, b1, w2, b2, lossNode, grads, epoch>>
  /\ UNCHANGED pvars

\* the sweep is exhausted: back to the while test
RForEnd ==
  /\ model = "regression" /\ pc = "for" /\ idx > Len(data)
  /\ pc' = "while"
  /\ UNCHANGED <<model, data, idx, w1, b1, w2, b2, lossNode, grads, loss, epoch>>
  /\ UNCHANGED pvars

NextR ==
  \/ RWhile \/ RLoss \/ RGradients
  \/ RUpdateW1 \/ RUpdateB1 \/ RUpdateB2 \/ RUpdateW2
  \/ RReeval \/ RForEnd

SpecR == InitR /\ [][NextR]_vars

\* ---------------------------------------------- DigitClassificationModel
NumEpochs == 100

RowMax(r) == CHOOSE m \in {r[j] : j \in 1..Len(r)} : \A j \in 1..Len(r) : r[j] <= m

\* e^t for t <= 0, as 1 / (1 - t + t^2/2)
ExpNeg(t) == DivRound(Unit * Unit, Unit - t + DivRound(t * t, 2 * Unit))

\* softmax of every row of the logits
Softmax(logits) ==
  [i \in 1..Rows(logits) |->
     LET e == [j \in 1..Cols(logits) |->
                 ExpNeg(logits[i][j] - RowMax(logits[i]))]
     IN  [j \in 1..Cols(logits) |->
            DivRound(e[j] * Unit, SumTo(e, Cols(logits)))]]

\* gradient of nn.SoftmaxLoss with respect to the logits:
\* (softmax(logits) - labels) / batch rows
SoftmaxLossGrad(logits, y) ==
  LET sm == Softmax(logits)
  IN  [i \in 1..Rows(y) |-> [j \in 1..Cols(y) |->
         DivRound(sm[i][j] - y[i][j], Rows(y))]]

Digit_hidden(p, x) == ReLU(AddBias(Linear(x, p.w1), p.b1))

Digit_run(p, x) == AddBias(Linear(Digit_hidden(p, x), p.w2), p.b2)

\* the loss node with the forward values it holds; train never reads its
\* scalar
Digit_get_loss(p, x, y) ==
  [x |-> x, y |-> y,
   h |-> Digit_hidden(p, x),
   out |-> Digit_run(p, x)]

Digit_gradients(node, p) ==
  Backprop(node.x, node.h, SoftmaxLossGrad(node.out, node.y), p.w2)

\* batches of images (two pixels in 0..1) with one-hot labels (two classes)
DBatches ==
  { [x |-> << <<Unit, 0>>, <<0, Unit>> >>,
     y |-> << <<Unit, 0>>, <<0, Unit>> >>],
    [x |-> << <<Frac(500), Frac(500)>>, <<0, Frac(300)>> >>,
     y |-> << <<Unit, 0>>, <<0, Unit>> >>] }
DDatasets == UNION {[1..n -> DBatches] : n \in 0..MaxLen}

\* nn.Parameter(2, 2), (1, 2), (2, 2), (1, 2) start at arbitrary small values
DInitParams ==
  { [w1 |-> << <<Frac(300), -Frac(200)>>, <<Frac(100), Frac(400)>> >>,
     b1 |-> << <<Frac(100), Frac(200)>> >>,
     w2 |-> << <<Frac(400), -Frac(100)>>, <<-Frac(300), Frac(200)>> >>,
     b2 |-> << <<0, Frac(50)>> >>],
    [w1 |-> << <<-Frac(500), Frac(600)>>, <<Frac(200), -Frac(300)>> >>,
     b1 |-> << <<-Frac(100), 0>> >>,
     w2 |-> << <<-Frac(200), Frac(300)>>, <<Frac(700), Frac(100)>> >>,
     b2 |-> << <<-Frac(150), 0>> >>] }

InitD ==
  /\ model = "digit"
  /\ data \in DDatasets
  /\ \E p \in DInitParams :
       w1 = p.w1 /\ b1 = p.b1 /\ w2 = p.w2 /\ b2 = p.b2
  /\ lossNode = <<>> /\ grads = <<>>
  /\ loss = 0
  /\ epoch = 0
  /\ pc = "range"
  /\ idx = 0
  /\ w = <<>> /\ flag = FALSE /\ pred = 0

DRange_short ==
  /\ model = "digit" /\ pc = "range"
  /\ IF epoch < NumEpochs - 1
       THEN epoch' = epoch + 1 /\ idx' = 1 /\ pc' = "for"
       ELSE pc' = "done" /\ UNCHANGED <<epoch, idx>>
  /\ UNCHANGED <<model, data, w1, b1, w2, b2, lossNode, grads, loss>>
  /\ UNCHANGED pvars

\* for i in range(100): for x, y in dataset.iterate_once(self.batch_size)
DRange ==
  /\ model = "digit" /\ pc = "range"
  /\ IF epoch < NumEpochs
       THEN epoch' = epoch + 1 /\ idx' = 1 /\ pc' = "for"
       ELSE pc' = "done" /\ UNCHANGED <<epoch, idx>>
  /\ UNCHANGED <<model, data, w1, b1, w2, b2, lossNode, grads, loss>>
  /\ UNCHANGED pvars

\* loss = self.get_loss(x, y)
DLoss ==
  /\ model = "digit" /\ pc = "for" /\ idx <= Len(data)
  /\ lossNode' = Digit_get_loss(Params, data[idx].x, data[idx].y)
  /\ pc' = "gradients"
  /\ UNCHANGED <<model, data, idx, w1, b1, w2, b2, grads, loss, epoch>>
  /\ UNCHANGED pvars

\* grad_wrt_w1, ... = nn.gradients(loss, [self.w1, self.b1, self.w2, self.b2])
DGradients ==
  /\ model = "digit" /\ pc = "gradients"
  /\ grads' = Digit_gradients(lossNode, Params)
  /\ pc' = "update_w1"
  /\ UNCHANGED <<model, data, idx, w1, b1, w2, b2, lossNode, loss, epoch>>
  /\ UNCHANGED pvars

\* self.w1.update(grad_wrt_w1, -1 * self.learningRate)
DUpdateW1 ==
  /\ model = "digit" /\ pc = "update_w1"
  /\ w1' = Update(w1, grads.w1, -1 * LearningRate)
  /\ pc' = "update_b1"
  /\ UNCHANGED <<model, data, idx, b1, w2, b2, lossNode, grads, loss, epoch>>
  /\ UNCHANGED pvars

\* self.b1.update(grad_wrt_b1, -1 * self.learningRate)
DUpdateB1 ==
  /\ model = "digit" /\ pc = "update_b1"
  /\ b1' = Update(b1, grads.b1, -1 * LearningRate)
  /\ pc' = "update_b2"
  /\ UNCHANGED <<model, data, idx, w1, w2, b2, lossNode, grads, loss, epoch>>
  /\ UNCHANGED pvars

\* self.b2.update(grad_wrt_b2, -1 * self.learningRate)
DUpdateB2 ==
  /\ model = "digit" /\ pc = "update_b2"
  /\ b2' = Update(b2, grads.b2, -1 * LearningRate)
  /\ pc' = "update_w2"
  /\ UNCHANGED <<model, data, idx, w1, b1, w2, lossNode, grads, loss, epoch>>
  /\ UNCHANGED pvars

\* self.w2.update(grad_wrt_w2, -1 * self.learningRate), then the next batch
DUpdateW2 ==
  /\ model = "digit" /\ pc = "update_w2"
  /\ w2' = Update(w2, grads.w2, -1 * LearningRate)
  /\ idx' = idx + 1
  /\ pc' = "for"
  /\ UNCHANGED <<model, data, w1, b1, b2, lossNode, grads, loss, epoch>>
  /\ UNCHANGED pvars

\* the sweep is exhausted: back to range(100)
DForEnd ==
  /\ model = "digit" /\ pc = "for" /\ idx > Len(data)
  /\ pc' = "range"
  /\ UNCHANGED <<model, data, idx, w1, b1, w2, b2, lossNode, grads, loss, epoch>>
  /\ UNCHANGED pvars

NextD ==
  \/ DRange \/ DLoss \/ DGradients
  \/ DUpdateW1 \/ DUpdateB1 \/ DUpdateB2 \/ DUpdateW2
  \/ DForEnd

SpecD == InitD /\ [][NextD]_vars

\* ------------------------------------------------------------ all models
InitNet == InitR \/ InitD
NextNet == NextR \/ NextD
SpecNet == InitNet /\ [][NextNet]_vars

Init == InitP \/ InitR \/ InitD
Next == NextP \/ NextR \/ NextD
Spec == Init /\ [][Next]_vars

\* ------------------------------------------------- perceptron properties
Abs(n) == IF n < 0 THEN -n ELSE n

\* the example the for loop is at, and its score under the current weights
CurX == data[idx].x
CurY == data[idx].y
CurScore == DotProduct(w, CurX)
AtExample == model = "perceptron" /\ pc = "if"

\* weight directions searched for a separating hyperplane through the origin
WSearch == [1..Dim -> -(Dim * XMax)..(Dim * XMax)]

\* strictly linearly separable: some w has y * (w . x) > 0 on every example
Separable == \E ws \in WSearch :
  \A i \in 1..Len(data) : data[i].y * DotProduct(ws, data[i].x) > 0

\* some w is labelled correctly by the rule "score >= 0 is +1, else -1"
Realizable == \E ws \in WSearch :
  \A i \in 1..Len(data) :
    (DotProduct(ws, data[i].x) >= 0) <=> (data[i].y = 1)

AgreesEverywhere == \A i \in 1..Len(data) :
  (DotProduct(w, data[i].x) >= 0) <=> (data[i].y = 1)

\* C1: on a linearly separable dataset train terminates, and where it returns
\* the prediction equals the label of every example.
C1_SeparableConverges ==
  (model = "perceptron" /\ Separable)
     ~> (pc = "done" /\ AgreesEverywhere)

C1_Witness ==
  /\ model = "perceptron" /\ pc = "done" /\ Separable
  /\ Len(data) >= 2
  /\ \E i \in 1..Dim : Abs(w[i]) > WScale

\* C2 as stated: on a dataset that is not linearly separable train never
\* returns.
C2_NonSeparableNeverReturns ==
  (model = "perceptron" /\ ~Separable) => pc # "done"

\* C2 amended: when no weight vector is labelled correctly by the prediction
\* rule on every example, train never returns: every finished sweep has set
\* flag, so the while test starts another sweep.
C2_UnrealizableNeverReturns ==
  (model = "perceptron" /\ ~Realizable)
     => (pc # "done" /\ (pc = "while" => flag))

C2_Witness ==
  /\ model = "perceptron" /\ ~Realizable
  /\ pc = "while" /\ idx > Len(data) /\ flag

\* C6: get_prediction is +1 when the score is >= 0 and -1 otherwise; a score
\* of exactly 0 is predicted +1.
C6_PredictionRule ==
  AtExample => /\ pred \in {1, -1}
               /\ (CurScore >= 0 => pred = 1)
               /\ (CurScore < 0 => pred = -1)

C6_Witness ==
  /\ AtExample /\ CurScore = 0 /\ pred = 1
  /\ \E i \in 1..Dim : w[i] # 0 /\ CurX[i] # 0

\* C7: an example with y * (w . x) < 0 strictly changes the weight vector.
C7_MistakeChangesWeights ==
  [][(AtExample /\ CurY * CurScore < 0) => w' # w]_vars

C7_Witness == AtExample /\ CurY * CurScore < 0 /\ pred # CurY

\* C9: a mispredicted example turns w into w + y*x and marks the sweep, a
\* correctly predicted one leaves w alone, and w changes in no other step.
C9_Mispredicted == (CurScore >= 0) # (CurY = 1)

C9_UpdateRule ==
  [][/\ AtExample =>
          IF C9_Mispredicted
            THEN /\ w' = [i \in 1..Dim |-> w[i] + CurY * CurX[i] * WScale]
                 /\ flag'
            ELSE w' = w /\ flag' = flag
     /\ (model = "perceptron" /\ w' # w) => (AtExample /\ C9_Mispredicted)
    ]_vars

C9_Witness ==
  /\ AtExample /\ C9_Mispredicted /\ ~flag /\ idx > 1
  /\ \E i \in 1..Dim : CurX[i] # 0

\* ---------------------------------------------------- network properties
IsRegression == model = "regression"
IsDigit == model = "digit"
RLossOn(i) == SquareLoss(Regression_run(Params, data[i].x), data[i].y)

\* C3: DigitClassificationModel.train runs exactly 100 sweeps: it starts a
\* sweep (one iterate_once call) 100 times, every sweep goes through all of
\* its batches one by one, and train returns after the 100th and not before.
C3_EpochStep ==
  /\ epoch' \in {epoch, epoch + 1}
  /\ epoch' = epoch + 1 => (pc = "range" /\ pc' = "for" /\ idx' = 1)
  /\ (pc = "for" /\ idx <= Len(data)) => (pc' = "gradients" /\ idx' = idx)
  /\ idx' # idx => (idx' = 1 \/ (idx' = idx + 1 /\ pc = "update_w2"))
  /\ pc' = "range" => (pc = "for" /\ idx = Len(data) + 1)
  /\ pc' = "done" => (pc = "range" /\ epoch = 100)

C3_ExactlyHundredEpochs ==
  /\ [](IsDigit => (epoch <= 100 /\ (pc = "done" => epoch = 100)))
  /\ [][IsDigit => C3_EpochStep]_vars

C3_Witness ==
  IsDigit /\ pc = "done" /\ epoch = 100 /\ Len(data) >= 2 /\ idx = Len(data) + 1

\* C4: RegressionModel.train returns only with the scalar loss, re-evaluated
\* after the last update, at most 0.015; while it is larger the while test
\* starts another sweep.
C4_LossThreshold ==
  /\ []((IsRegression /\ pc = "done") =>
          /\ 1000 * loss <= 15 * Unit
          /\ Len(data) > 0
          /\ loss = RLossOn(idx - 1))
  /\ [][(IsRegression /\ pc = "while" /\ 1000 * loss > 15 * Unit)
          => (pc' = "for" /\ idx' = 1)]_vars

C4_Witness ==
  /\ IsRegression /\ pc = "done" /\ Len(data) >= 2
  /\ lossNode.value > Threshold /\ loss <= Threshold

\* C5: in one batch step the four gradients are those of the pre-step
\* parameters, and each parameter becomes itself + (-learning_rate) * its own
\* gradient, whatever the order of the update calls.
C5_Delta(g) ==
  [i \in 1..Rows(g) |-> [j \in 1..Cols(g) |-> Round((0 - LearningRate) * g[i][j])]]

C5_Plus(m, d) ==
  [i \in 1..Rows(m) |-> [j \in 1..Cols(m) |-> m[i][j] + d[i][j]]]

C5_Minus(m, d) ==
  [i \in 1..Rows(m) |-> [j \in 1..Cols(m) |-> m[i][j] - d[i][j]]]

\* the parameters already updated in the current batch step
C5_Updated ==
  CASE pc = "update_w1" -> {}
    [] pc = "update_b1" -> {"w1"}
    [] pc = "update_b2" -> {"w1", "b1"}
    [] pc = "update_w2" -> {"w1", "b1", "b2"}
    [] OTHER -> {"w1", "b1", "b2", "w2"}

C5_AfterGradients ==
  \/ pc \in {"update_w1", "update_b1", "update_b2", "update_w2", "reeval"}
  \/ IsDigit /\ pc = "for" /\ idx > 1

C5_Batch == IF pc = "for" THEN data[idx - 1] ELSE data[idx]

\* the parameter values the batch step started from
C5_PreStep ==
  [n \in {"w1", "b1", "w2", "b2"} |->
     IF n \in C5_Updated THEN C5_Minus(Params[n], C5_Delta(grads[n]))
                         ELSE Params[n]]

\* grads are the gradients of the loss of the batch at parameters p
C5_GradientsAt(p, batch) ==
  IF IsRegression
    THEN \A node \in {Regression_get_loss(p, batch.x, batch.y)} :
           grads = Regression_gradients(node, p)
    ELSE \A node \in {Digit_get_loss(p, batch.x, batch.y)} :
           grads = Digit_gradients(node, p)

C5_Law ==
  /\ pc = "update_w1" => w1' = C5_Plus(w1, C5_Delta(grads.w1))
  /\ pc = "update_b1" => b1' = C5_Plus(b1, C5_Delta(grads.b1))
  /\ pc = "update_w2" => w2' = C5_Plus(w2, C5_Delta(grads.w2))
  /\ pc = "update_b2" => b2' = C5_Plus(b2, C5_Delta(grads.b2))
  /\ pc # "update_w1" => w1' = w1
  /\ pc # "update_b1" => b1' = b1
  /\ pc # "update_w2" => w2' = w2
  /\ pc # "update_b2" => b2' = b2
  /\ pc # "gradients" => grads' = grads

C5_UpdateLaw ==
  /\ []((model # "perceptron" /\ C5_AfterGradients)
          => \A p \in {C5_PreStep} : C5_GradientsAt(p, C5_Batch))
  /\ [][model # "perceptron" => C5_Law]_vars

C5_Witness ==
  /\ IsRegression /\ pc = "reeval"
  /\ \A n \in {"w1", "b1", "w2", "b2"} : C5_PreStep[n] # Params[n]
  /\ grads.w2[1][1] # grads.b2[1][1]

\* C8: evaluating run, get_loss or get_prediction changes no Parameter, and
\* evaluating the loss of the same batch again with no update in between
\* gives the value already obtained.
C8_Forward ==
  \/ pc = "for" /\ idx <= Len(data)
  \/ pc = "reeval"

C8_SameBatchAgain ==
  IsRegression /\ pc = "for" /\ idx > 1 /\ idx <= Len(data)
     /\ data[idx] = data[idx - 1]

C10_Step ==
  /\ pc = "reeval" => (pc' = "for" /\ idx' = idx + 1)
  /\ (pc = "for" /\ idx <= Len(data)) => (pc' = "gradients" /\ loss' = loss)
  /\ (pc = "for" /\ idx > Len(data)) => (pc' = "while" /\ loss' = loss)
  /\ pc = "while" =>
       pc' = IF 1000 * loss > 15 * Unit THEN "for" ELSE "done"
  /\ pc' = "done" => pc = "while"

C10_SweepBoundary ==
  /\ []((IsRegression /\ pc = "while") =>
          loss = IF idx = 0 \/ Len(data) = 0 THEN Unit ELSE RLossOn(Len(data)))
  /\ [][IsRegression => C10_Step]_vars

C10_Witness ==
  /\ IsRegression /\ pc = "for" /\ idx > 1 /\ idx <= Len(data)
  /\ loss <= Threshold
  /\ \E i \in idx..Len(data) : RLossOn(i) > Threshold
====
